---- MODULE Spec2Model ----
(***************************************************************************)
(* The vectorised Cheat engine, CheatPy/Cheat.py (class CheatGame), with   *)
(* CheatPy/components/player.py and CheatPy/components/deck.py.            *)
(*                                                                         *)
(* Conventions of the model                                                *)
(*  - A numpy vector of length n is a tuple of length n; the rank index i  *)
(*    of the code (0-based) is position i + 1 of the tuple.                *)
(*  - self.state and self.player_history[p] are flat integer arrays, as    *)
(*    np.append builds them.                                               *)
(*  - self.players[p].hand is the 13-wide count vector that add_cards,     *)
(*    remove_cards and is_valid_action operate on; which cards are dealt   *)
(*    is a black box, drawn from the set Deals.  Of the deck the model     *)
(*    keeps len(self.deck), the number of cards left in it.                *)
(*  - The challenge head is the 0/1 entry actions[-1]; the decoded         *)
(*    challenge field is that entry (the code tests it for truth and       *)
(*    compares the stored one with 1).                                     *)
(*  - An exception that leaves step() part-way is a step of the model: the *)
(*    assignments made before the raise are kept, the later ones are not.  *)
(*  - ret is the observer's view of the last call: what it returned or     *)
(*    raised, the challenge bit of the action passed, whether the engine   *)
(*    took the action (is_valid_action held) and whether the action was    *)
(*    legal by the rule of the game.  It is not a field of the engine.     *)
(*  - codec holds the input and the results of the action codec when it   *)
(*    is applied on its own (CodecSpec); it is idle in Spec.               *)
(***************************************************************************)
EXTENDS Integers, Sequences, FiniteSets, TLC

\* components/deck.py
NUM_UNIQUE_CARDS == 13
NUM_REPLICAS == 4
\* Deck._len_ of a new deck: the sum of Deck.cards
FULL_DECK == NUM_UNIQUE_CARDS * NUM_REPLICAS

\* CheatGame.__init__ defaults and fixed values
num_players == 2
invalid_penalty == -99

\* number of card slots and width of the count head of the one-hot action
NUM_SLOTS == 4

\* ---- bounds of the model ----
\* the constructor argument num_rounds (default 50)
max_number_of_rounds == 3
\* the number of step() calls on one engine is unbounded in the code
\* (rejected and raising calls count as rounds, and a reset that raises
\* restarts the count); the model explores max_number_of_rounds + 1 calls,
\* and no call that follows a reset that raised
RoundCap == max_number_of_rounds + 1
\* rank indexes: the 2 (rank_declared 2) and the Ace (rank_declared 14); the
\* ranks that take part in deals and actions
TWO == 0
ACE == NUM_UNIQUE_CARDS - 1
DealtRanks == {TWO, ACE}
PlayerIds == 0 .. num_players - 1

\* (2 + 13 + 1 + 3) * max rounds
max_history_len == ((2 + NUM_UNIQUE_CARDS + 1) + 3) * max_number_of_rounds

\* deck is len(self.deck), the cards left in the engine's deck; calls counts
\* the step() calls made on the engine (the observer's count, like ret);
\* codec holds the values of the action codec applied on its own
VARIABLES players, central_pile, current_player, num_rounds, done,
          if_last_claim_bluff, state, player_history, deck, ret, calls,
          codec

engine == <<players, central_pile, current_player, num_rounds, done,
            if_last_claim_bluff, state, player_history, deck>>
vars == <<players, central_pile, current_player, num_rounds, done,
          if_last_claim_bluff, state, player_history, deck, ret, calls,
          codec>>

\* ---- vectors ----
Zeros == [i \in 1 .. NUM_UNIQUE_CARDS |-> 0]

RECURSIVE SumTo(_, _)
SumTo(v, n) == IF n = 0 THEN 0 ELSE v[n] + SumTo(v, n - 1)
\* np.sum
Sum(v) == SumTo(v, Len(v))

\* np.argmax: the 0-based position of the first maximum
ArgMax(v) ==
    CHOOSE i \in 0 .. Len(v) - 1 :
        /\ \A j \in 0 .. Len(v) - 1 : v[j + 1] <= v[i + 1]
        /\ \A j \in 0 .. i - 1 : v[j + 1] < v[i + 1]

\* ---- components/player.py ----
\* Player.add_cards: self.hand += cards
add_cards(hand, cards) == [i \in 1 .. NUM_UNIQUE_CARDS |-> hand[i] + cards[i]]

\* Player.remove_cards: self.hand -= cards
remove_cards(hand, cards) == [i \in 1 .. NUM_UNIQUE_CARDS |-> hand[i] - cards[i]]

\* ---- the one-hot action the caller passes to step ----
OneHot(n, i) == [k \in 1 .. n |-> IF k = i + 1 THEN 1 ELSE 0]

\* a card slot holds a rank index, or -1 when it is empty (all zero)
SlotValues == DealtRanks \cup {-1}
SlotChoices ==
    {s \in [1 .. NUM_SLOTS -> SlotValues] :
        \A k \in 1 .. NUM_SLOTS - 1 : s[k] >= s[k + 1]}

OneHotAction(c, r, s, ch) ==
    OneHot(NUM_SLOTS, c) \o OneHot(NUM_UNIQUE_CARDS, r)
        \o OneHot(NUM_UNIQUE_CARDS, s[1]) \o OneHot(NUM_UNIQUE_CARDS, s[2])
        \o OneHot(NUM_UNIQUE_CARDS, s[3]) \o OneHot(NUM_UNIQUE_CARDS, s[4])
        \o <<ch>>

Actions ==
    {OneHotAction(c, r, s, ch) :
        c \in 0 .. NUM_SLOTS - 1, r \in DealtRanks, s \in SlotChoices, ch \in 0 .. 1}

\* ---- CheatGame ----
\* the loop of output_actions_to_history_actions: the sum of the four slots
RECURSIVE cards_played(_, _)
cards_played(actions, n) ==
    IF n = 0 THEN Zeros
    ELSE add_cards(cards_played(actions, n - 1),
                   SubSeq(actions, 18 + (n - 1) * NUM_UNIQUE_CARDS,
                          17 + n * NUM_UNIQUE_CARDS))

output_actions_to_history_actions(actions) ==
    LET num_cards_to_declare == ArgMax(SubSeq(actions, 1, 4))
        rank_declared == ArgMax(SubSeq(actions, 5, 17)) + 2
        challenge == actions[Len(actions)]
    IN <<num_cards_to_declare, rank_declared>> \o cards_played(actions, 4)
           \o <<challenge>>

\* a turn pointer that never moves
next_player_stuck(cp) == cp

next_player(cp) == (cp + 1) % num_players

\* a play whose cards never reach the pile
add_to_pile_dropped(pile, cards) == pile

\* add_to_pile: self.central_pile += cards
add_to_pile(pile, cards) == add_cards(pile, cards)

\* np.where(selected_cards > 0)[0]
idxs_of(selected_cards) ==
    {i \in 0 .. NUM_UNIQUE_CARDS - 1 : selected_cards[i + 1] > 0}

\* is_bluff raises instead of returning: `if idxs > 1` on an index array of
\* two or more entries (ambiguous truth value), idxs[0] on an empty one
is_bluff_raises(selected_cards) == Cardinality(idxs_of(selected_cards)) # 1

is_bluff(selected_suite, selected_rank, selected_cards) ==
    LET idx == CHOOSE i \in idxs_of(selected_cards) : TRUE
    IN IF idx > 1 THEN TRUE ELSE idx # selected_rank - 2

\* resolve_challenge with the two players exchanged
resolve_challenge_swapped ==
    IF if_last_claim_bluff
    THEN [players EXCEPT ![current_player] = add_cards(@, central_pile)]
    ELSE [players EXCEPT ![1 - current_player] = add_cards(@, central_pile)]

\* the hands after resolve_challenge
resolve_challenge ==
    IF if_last_claim_bluff
    THEN [players EXCEPT ![1 - current_player] = add_cards(@, central_pile)]
    ELSE [players EXCEPT ![current_player] = add_cards(@, central_pile)]

is_terminal(rounds, hands) ==
    \/ rounds >= max_number_of_rounds
    \/ \E p \in PlayerIds : Len(hands[p]) = 0

\* a reward that is the penalty while the game goes on
get_reward_confused(player_idx, is_done, hands) ==
    IF is_done
    THEN IF Len(hands[player_idx]) > Len(hands[1 - player_idx]) THEN 1 ELSE -1
    ELSE invalid_penalty

get_reward(player_idx, is_done, hands) ==
    IF is_done
    THEN IF Len(hands[player_idx]) > Len(hands[1 - player_idx]) THEN 1 ELSE -1
    ELSE 0

\* is_valid_action without the check of the number of cards declared
is_valid_action_any_count(selected_suite, selected_rank, selected_cards, challenge) ==
    /\ \A i \in 1 .. NUM_UNIQUE_CARDS :
           selected_cards[i] <= players[current_player][i]
    /\ challenge # 0 => /\ Len(state) # 0
                        /\ state[Len(state)] # 1

\* is_valid_action without the check that the cards are in the hand
is_valid_action_any_cards(selected_suite, selected_rank, selected_cards, challenge) ==
    /\ Sum(selected_cards) = selected_suite
    /\ challenge # 0 => /\ Len(state) # 0
                        /\ state[Len(state)] # 1

\* is_valid_action without the check for a second challenge in a row
is_valid_action_chained(selected_suite, selected_rank, selected_cards, challenge) ==
    /\ \A i \in 1 .. NUM_UNIQUE_CARDS :
           selected_cards[i] <= players[current_player][i]
    /\ Sum(selected_cards) = selected_suite
    /\ challenge # 0 => Len(state) # 0

\* is_valid_action without the check for a previous claim
is_valid_action_no_claim(selected_suite, selected_rank, selected_cards, challenge) ==
    /\ \A i \in 1 .. NUM_UNIQUE_CARDS :
           selected_cards[i] <= players[current_player][i]
    /\ Sum(selected_cards) = selected_suite
    /\ challenge # 0 => (Len(state) # 0 => state[Len(state)] # 1)

is_valid_action(selected_suite, selected_rank, selected_cards, challenge) ==
    /\ \A i \in 1 .. NUM_UNIQUE_CARDS :
           selected_cards[i] <= players[current_player][i]
    /\ Sum(selected_cards) = selected_suite
    /\ challenge # 0 => /\ Len(state) # 0
                        /\ state[Len(state)] # 1

\* get_info_state: np.pad raises on a negative pad_len
pad_len(cp, history) == max_history_len - Len(history[cp])

get_info_state(cp, hands, history) ==
    hands[cp] \o history[cp] \o [i \in 1 .. pad_len(cp, history) |-> 0]

\* ---- the deal ----
\* the black-box deal: a hand of twos two-cards and aces Aces
Hand(twos, aces) ==
    [i \in 1 .. NUM_UNIQUE_CARDS |->
        IF i = TWO + 1 THEN twos ELSE IF i = ACE + 1 THEN aces ELSE 0]
Deal(h0, h1) == [p \in PlayerIds |-> IF p = 0 THEN h0 ELSE h1]
Deals ==
    {Deal(Hand(1, 1), Hand(1, 0)),
     Deal(Hand(0, 1), Hand(1, 0))}

\* ---- the observer's record of a call ----
NoCall ==
    [kind |-> "reset", accepted |-> FALSE, legal |-> FALSE, challenge |-> 0,
     reward |-> 0, done |-> FALSE]
Returned(acc, leg, ch, rew, dn) ==
    [kind |-> "return", accepted |-> acc, legal |-> leg, challenge |-> ch,
     reward |-> rew, done |-> dn]
Raised(what, acc, leg, ch) ==
    [kind |-> what, accepted |-> acc, legal |-> leg, challenge |-> ch,
     reward |-> 0, done |-> FALSE]

\* The legality rule of the game for a decoded action, stated on the acting
\* player's hand and history stream: the cards played are held, as many cards
\* are played as are declared, and a challenge follows a claim that is not
\* itself a challenge.
LegalByRule(hand, history, count, cards, challenge) ==
    /\ \A i \in 1 .. NUM_UNIQUE_CARDS : cards[i] <= hand[i]
    /\ Sum(cards) = count
    /\ challenge = 1 => /\ history # <<>>
                        /\ history[Len(history)] = 0

\* the loop of reset(): each player in turn is dealt
\* len(self.deck) // num_players cards, taken out of the deck; what is left
\* of a deck of n cards after k players
RECURSIVE deck_after_deal(_, _)
deck_after_deal(n, k) ==
    IF k = 0 THEN n
    ELSE LET m == deck_after_deal(n, k - 1)
         IN m - (m \div num_players)

\* Deck.shuffle raises on a deck that is not full
shuffle_raises(n) == n < 52

\* the assignments of reset() after a deal
ResetTo(deal) ==
    /\ num_rounds' = 0
    /\ players' = deal
    /\ deck' = deck_after_deal(deck, num_players)
    /\ state' = <<>>
    /\ player_history' = [p \in PlayerIds |-> <<>>]
    /\ current_player' = 0
    /\ central_pile' = Zeros
    /\ if_last_claim_bluff' = FALSE
    /\ done' = FALSE
    /\ ret' = NoCall

\* the codec is not applied on its own
NoCodec == [pc |-> "idle", x |-> <<>>, rec |-> <<>>, y |-> <<>>, rec2 |-> <<>>]

\* __init__: a new Deck, then reset()
Init ==
    \E deal \in Deals :
        /\ num_rounds = 0
        /\ players = deal
        /\ deck = deck_after_deal(FULL_DECK, num_players)
        /\ state = <<>>
        /\ player_history = [p \in PlayerIds |-> <<>>]
        /\ current_player = 0
        /\ central_pile = Zeros
        /\ if_last_claim_bluff = FALSE
        /\ done = FALSE
        /\ ret = NoCall
        /\ calls = 0
        /\ codec = NoCodec

\* reset(): self.num_rounds = 0, then self.deck.shuffle(), which raises
\* unless the deck is full; nothing refills the deck
Reset ==
    /\ UNCHANGED <<calls, codec>>
    /\ IF shuffle_raises(deck)
       THEN /\ num_rounds' = 0
            /\ ret' = Raised("reset ValueError", FALSE, FALSE, 0)
            /\ UNCHANGED <<players, central_pile, current_player, done,
                           if_last_claim_bluff, state, player_history, deck>>
       ELSE \E deal \in Deals : ResetTo(deal)

\* an exposure that shows the opponent the whole record
partial_information_whole(action_repr) == action_repr

\* np.concatenate([selected_suite, selected_rank, challenge]): what the
\* opponent is exposed to
partial_information(action_repr) ==
    <<action_repr[1], action_repr[2], action_repr[Len(action_repr)]>>

\* an update that keeps only the newest record of the acting player
update_history_newest(history, cp, action_repr) ==
    [history EXCEPT ![cp] = action_repr,
                    ![1 - cp] = @ \o partial_information(action_repr)]

\* "update history" of step: the record for the acting player, the partial
\* information for the opponent
update_history(history, cp, action_repr) ==
    [history EXCEPT ![cp] = @ \o action_repr,
                    ![1 - cp] = @ \o partial_information(action_repr)]

\* output_actions_to_history_actions on the actions the model passes,
\* tabulated
history_actions ==
    [actions \in Actions |-> output_actions_to_history_actions(actions)]

\* step without its assertion
step_assert_skipped == FALSE

\* assert not self.done
step_assert_fails == done

\* step(actions)
Step(actions) ==
    IF step_assert_fails
    THEN /\ ret' = Raised("AssertionError", FALSE, FALSE, actions[Len(actions)])
         /\ UNCHANGED <<engine, calls, codec>>
    ELSE
      LET action_repr == history_actions[actions]
          selected_suite == action_repr[1]
          selected_rank == action_repr[2]
          selected_cards == SubSeq(action_repr, 3, 15)
          challenge == action_repr[Len(action_repr)]
          valid == is_valid_action(selected_suite, selected_rank,
                                   selected_cards, challenge)
          legal == LegalByRule(players[current_player],
                               player_history[current_player],
                               selected_suite, selected_cards, challenge)
          history1 == update_history(player_history, current_player,
                                     action_repr)
          raises == challenge = 0 /\ is_bluff_raises(selected_cards)
      IN
      /\ calls < RoundCap
      /\ ret.kind # "reset ValueError"
      /\ calls' = calls + 1
      /\ UNCHANGED <<deck, codec>>
      /\ num_rounds' = num_rounds + 1
      /\ IF ~valid
         THEN /\ UNCHANGED <<players, central_pile, current_player, done,
                            if_last_claim_bluff, state, player_history>>
              /\ ret' = IF pad_len(current_player, player_history) < 0
                        THEN Raised("ValueError", FALSE, legal, challenge)
                        ELSE Returned(FALSE, legal, challenge, invalid_penalty, done)
         ELSE
           /\ state' = state \o action_repr
           /\ player_history' = history1
           /\ IF challenge # 0
              THEN /\ players' = resolve_challenge
                   /\ central_pile' = Zeros
                   /\ UNCHANGED if_last_claim_bluff
              ELSE /\ players' = [players EXCEPT ![current_player] =
                                     remove_cards(@, selected_cards)]
                   /\ central_pile' = add_to_pile(central_pile, selected_cards)
                   /\ if_last_claim_bluff' =
                        IF raises THEN if_last_claim_bluff
                        ELSE IF is_bluff(selected_suite, selected_rank, selected_cards)
                             THEN TRUE
                             ELSE if_last_claim_bluff
           /\ IF raises
              THEN /\ UNCHANGED <<done, current_player>>
                   /\ ret' = Raised("ValueError", TRUE, legal, challenge)
              ELSE LET terminal == is_terminal(num_rounds', players')
                       cp == IF terminal THEN current_player
                             ELSE next_player(current_player)
                   IN /\ done' = terminal
                      /\ current_player' = cp
                      /\ ret' = IF pad_len(cp, history1) < 0
                                THEN Raised("ValueError", TRUE, legal, challenge)
                                ELSE Returned(TRUE, legal, challenge,
                                              get_reward(cp, terminal, players'),
                                              terminal)

\* the actions the model passes to step: every action while the game goes
\* on; on a finished game, where the assertion fails before actions is
\* read, one play and one challenge
Inputs ==
    IF done
    THEN {OneHotAction(0, TWO, <<-1, -1, -1, -1>>, ch) : ch \in 0 .. 1}
    ELSE Actions

Next ==
    \/ \E actions \in Inputs : Step(actions)
    \/ Reset

Spec == Init /\ [][Next]_vars

\* ---- the action codec on its own ----
\* every validly shaped one-hot action over the dealt ranks: one count bit,
\* one rank bit, four card slots in any order, a challenge bit
CodecInputs ==
    {OneHotAction(c, r, s, ch) :
        c \in 0 .. NUM_SLOTS - 1, r \in DealtRanks,
        s \in [1 .. NUM_SLOTS -> SlotValues], ch \in 0 .. 1}

\* the rank indices of a played-cards vector, one per card, from rank i on
RECURSIVE ranks_of(_, _)
ranks_of(cards, i) ==
    IF i > NUM_UNIQUE_CARDS THEN <<>>
    ELSE [k \in 1 .. cards[i] |-> i - 1] \o ranks_of(cards, i + 1)

\* the encoder of the action codec: count c in 1..4 at position c - 1 of the
\* count head, rank r at position r - 2 of the rank head, one slot per card
history_actions_to_output_actions(rec) ==
    LET r == ranks_of(SubSeq(rec, 3, 2 + NUM_UNIQUE_CARDS), 1)
        s == [k \in 1 .. NUM_SLOTS |-> IF k <= Len(r) THEN r[k] ELSE -1]
    IN OneHotAction(rec[1] - 1, rec[2] - 2, s, rec[Len(rec)])

CodecInit ==
    /\ num_rounds = 0
    /\ players = Deal(Hand(1, 1), Hand(1, 0))
    /\ deck = deck_after_deal(FULL_DECK, num_players)
    /\ state = <<>>
    /\ player_history = [p \in PlayerIds |-> <<>>]
    /\ current_player = 0
    /\ central_pile = Zeros
    /\ if_last_claim_bluff = FALSE
    /\ done = FALSE
    /\ ret = NoCall
    /\ calls = 0
    /\ \E x \in CodecInputs :
           codec = [pc |-> "x", x |-> x, rec |-> <<>>, y |-> <<>>, rec2 |-> <<>>]

Decode ==
    /\ codec.pc = "x"
    /\ codec' = [codec EXCEPT !.pc = "rec",
                              !.rec = output_actions_to_history_actions(codec.x)]
    /\ UNCHANGED <<engine, ret, calls>>

Encode ==
    /\ codec.pc = "rec"
    /\ codec' = [codec EXCEPT !.pc = "y",
                              !.y = history_actions_to_output_actions(codec.rec)]
    /\ UNCHANGED <<engine, ret, calls>>

DecodeAgain ==
    /\ codec.pc = "y"
    /\ codec' = [codec EXCEPT !.pc = "rec2",
                              !.rec2 = output_actions_to_history_actions(codec.y)]
    /\ UNCHANGED <<engine, ret, calls>>

CodecNext == Decode \/ Encode \/ DecodeAgain
CodecSpec == CodecInit /\ [][CodecNext]_vars

(***************************************************************************)
(* The claims.  A step of the model is one call; ret' describes the call   *)
(* that made the step.                                                     *)
(***************************************************************************)
\* a call of step() that passed the assertion
StepRan == ret'.kind \in {"return", "ValueError"}
\* a call of reset()
ResetCalled == ret'.kind \in {"reset", "reset ValueError"}
\* the cards in play, per rank
InPlay(hands, pile) == add_cards(add_cards(hands[0], hands[1]), pile)
\* the last 16-wide record of the engine's log
LastRecord == SubSeq(state, Len(state) - 15, Len(state))
Inert ==
    /\ players' = players
    /\ central_pile' = central_pile
    /\ current_player' = current_player
    /\ player_history' = player_history

\* C1: every call of step, accepted, rejected or raising, leaves the number
\* of cards of every rank in the hands and the pile together unchanged, so
\* the total stays the total dealt at reset.
C1_Conservation ==
    [][StepRan \/ ret'.kind = "AssertionError" =>
          \/ players' = players /\ central_pile' = central_pile
          \/ InPlay(players', central_pile') = InPlay(players, central_pile)]_vars
\* a one-card play went to the pile and an accepted challenge moved the pile
\* to a hand
C1_Witness ==
    /\ ret.kind = "return" /\ ret.accepted /\ ret.challenge = 1
    /\ Len(state) = 32 /\ state[1] = 1 /\ state[16] = 0
    /\ central_pile = Zeros
    /\ \E p \in PlayerIds, d \in Deals :
           Sum(players[p]) = Sum(d[p]) + 1

\* C2 (as claimed): an accepted challenge is resolved against the most recent
\* play: the challenger absorbs the pile if every card of that play has the
\* declared rank, the previous player if some card has another rank.  Stated
\* for a challenge that directly follows a play step() returned from, so
\* that the previous player is the claimant.
C2_ChallengeSoundness ==
    [][(StepRan /\ ret'.accepted /\ ret'.challenge = 1
            /\ ret.kind = "return" /\ ret.accepted /\ ret.challenge = 0) =>
          LET rank == LastRecord[2]
              cards == SubSeq(LastRecord, 3, 15)
              truthful == \A i \in 1 .. NUM_UNIQUE_CARDS :
                              cards[i] > 0 => i - 1 = rank - 2
              loser == IF truthful THEN current_player ELSE 1 - current_player
          IN players' = [players EXCEPT ![loser] = add_cards(@, central_pile)]]_vars

C4_RejectedKeepsRounds ==
    [][(StepRan /\ ~ret'.accepted) =>
          /\ num_rounds' = num_rounds
          /\ done' = done]_vars

C6_EmptyHandTerminal ==
    (ret.kind = "return" /\ ret.accepted
        /\ \E p \in PlayerIds : Sum(players[p]) = 0)
    => (done /\ ret.done)

\* C7 (as claimed): an accepted step returns 0 when the resulting state is not
\* terminal, and when it is, +1 if the player the reward is reported for holds
\* strictly fewer cards than the opponent and -1 otherwise.
C7_TerminalReward ==
    (ret.kind = "return" /\ ret.accepted) =>
        ret.reward =
            IF ~ret.done THEN 0
            ELSE IF Sum(players[current_player]) < Sum(players[1 - current_player])
                 THEN 1 ELSE -1

\* C8: once DONE is set, a call of step raises and changes nothing, and DONE
\* stays set until reset.
C8_StepAfterDone ==
    [][done =>
          \/ ResetCalled
          \/ /\ ret'.kind = "AssertionError"
             /\ UNCHANGED engine]_vars
\* step was called on a finished game
C8_Witness ==
    /\ done
    /\ ret.kind = "AssertionError"
    /\ calls < RoundCap

\* C9 (as claimed): the round counter never exceeds max_number_of_rounds, and
\* the engine is DONE whenever the counter has reached it.
C9_RoundCap ==
    /\ num_rounds <= max_number_of_rounds
    /\ num_rounds >= max_number_of_rounds => done

CountPosition == CHOOSE i \in 0 .. NUM_SLOTS - 1 : codec.x[i + 1] = 1

\* C12 (as claimed): a count head with its 1 at position i decodes to the
\* declared count i + 1, a number in 1..4.
C12_CountHead ==
    codec.pc # "x" =>
        /\ codec.rec[1] = CountPosition + 1
        /\ codec.rec[1] \in 1 .. NUM_SLOTS

C15_ResetFresh ==
    [][ResetCalled =>
          /\ ret'.kind = "reset"
          /\ num_rounds' = 0
          /\ ~done'
          /\ current_player' = 0
          /\ central_pile' = Zeros
          /\ ~if_last_claim_bluff'
          /\ state' = <<>>
          /\ \A p \in PlayerIds : player_history'[p] = <<>>
          /\ players' \in Deals
          /\ deck' = deck_after_deal(FULL_DECK, num_players)]_vars

\* C16: what an accepted play adds to the opponent's history stream is the
\* declared count, the declared rank and the challenge bit of the play and
\* nothing else, so two plays from the same state that differ only in the
\* cards played leave the opponent's stream the same.
C16_OpponentStream ==
    [][(StepRan /\ ret'.accepted /\ ret'.challenge = 0) =>
          LET rec == SubSeq(state', Len(state') - 15, Len(state'))
          IN \A p \in PlayerIds \ {current_player} :
                 player_history'[p] =
                     player_history[p] \o <<rec[1], rec[2], rec[16]>>]_vars
\* player 0 declared one Ace and played its two; player 1 has seen the claim
C16_Witness ==
    /\ ret.kind = "return" /\ ret.accepted /\ ret.challenge = 0
    /\ Len(state) = 16
    /\ state[2] = ACE + 2
    /\ state[3 + TWO] = 1
    /\ player_history[1] = <<1, ACE + 2, 0>>

\* C17: an action step takes appends one 16-wide record (count, rank, 13
\* card counts, challenge bit) to the acting player's stream and the 3-wide
\* record (count, rank, challenge bit) to the other player's stream, in
\* front of which the earlier entries stay as they were; any other call of
\* step leaves every stream as it was.
C17_HistoryAppend ==
    [][(StepRan \/ ret'.kind = "AssertionError") =>
          IF ret'.accepted
          THEN LET rec == SubSeq(state', Len(state') - 15, Len(state'))
               IN /\ Len(rec) = 16
                  /\ state' = state \o rec
                  /\ player_history'[current_player] =
                         player_history[current_player] \o rec
                  /\ \A p \in PlayerIds \ {current_player} :
                         /\ Len(player_history'[p]) = Len(player_history[p]) + 3
                         /\ SubSeq(player_history'[p], 1, Len(player_history[p]))
                                = player_history[p]
                         /\ player_history'[p][Len(player_history'[p]) - 2] = rec[1]
                         /\ player_history'[p][Len(player_history'[p]) - 1] = rec[2]
                         /\ player_history'[p][Len(player_history'[p])] = rec[16]
          ELSE /\ player_history' = player_history
               /\ state' = state]_vars
\* both players have acted once: each stream holds one full and one
\* redacted record
C17_Witness ==
    /\ ret.kind = "return" /\ ret.accepted
    /\ Len(state) = 32
    /\ \A p \in PlayerIds : Len(player_history[p]) = 19

\* two one-hot actions are equivalent: the same count, rank and challenge
\* bit and the same number of cards of every rank
Equivalent(x, y) ==
    /\ Len(x) = Len(y)
    /\ SubSeq(x, 1, 4 + NUM_UNIQUE_CARDS) = SubSeq(y, 1, 4 + NUM_UNIQUE_CARDS)
    /\ cards_played(x, NUM_SLOTS) = cards_played(y, NUM_SLOTS)
    /\ x[Len(x)] = y[Len(y)]

\* C18 (as claimed): encoding the record decoded from a validly shaped
\* action x gives an action equivalent to x, and decoding that action gives
\* the same record again.
C18_RoundTrip ==
    codec.pc = "rec2" =>
        /\ Equivalent(codec.x, codec.y)
        /\ codec.rec2 = codec.rec

\* the actions of the scenario: one Ace played and declared as one Ace
\* ([1,0,0,0] in the count head), and a challenge
AceDeclaredOnce == OneHotAction(0, ACE, <<ACE, -1, -1, -1>>, 0)
Challenge == OneHotAction(0, TWO, <<-1, -1, -1, -1>>, 1)

\* C19 (as claimed): with the hands {A:1} and {2:1}, the step in which
\* player 0 plays its Ace declaring one Ace is accepted and leaves the pile
\* {A:1} and the bluff flag False; the step in which player 1 then
\* challenges is accepted, player 1 then holds {2:1, A:1} and player 0
\* nothing, the step returns done = True and the reward of player 0 is +1.
C19_Scenario ==
    [][/\ (/\ players = Deal(Hand(0, 1), Hand(1, 0))
           /\ state = <<>>
           /\ current_player = 0
           /\ Step(AceDeclaredOnce)) =>
             /\ ret'.kind = "return" /\ ret'.accepted
             /\ central_pile' = Hand(0, 1)
             /\ ~if_last_claim_bluff'
       /\ (/\ players = Deal(Hand(0, 0), Hand(1, 0))
           /\ central_pile = Hand(0, 1)
           /\ Len(state) = 16
           /\ current_player = 1
           /\ Step(Challenge)) =>
             /\ ret'.kind = "return" /\ ret'.accepted
             /\ players' = Deal(Hand(0, 0), Hand(1, 1))
             /\ ret'.done
             /\ get_reward(0, done', players') = 1]_vars

\* C20: whenever step returns, the reward is the penalty -99 if and only if
\* the action was rejected, a rejected action is illegal and is returned
\* with done = False, and the reward of an accepted action is -1, 0 or +1.
C20_PenaltyOnlyIllegal ==
    ret.kind = "return" =>
        /\ ret.reward = invalid_penalty <=> ~ret.accepted
        /\ ~ret.accepted => ~ret.legal /\ ~ret.done
        /\ ret.accepted => ret.reward \in {-1, 0, 1}
\* a game with a rejected call in it ended with an accepted step that
\* returned the terminal reward
C20_Witness ==
    /\ ret.kind = "return" /\ ret.accepted /\ ret.done
    /\ ret.reward = -1
    /\ num_rounds > Len(state) \div 16

\* C21 (as claimed): an accepted play of at least one card is classified as
\* a bluff if and only if some card played has a rank other than the
\* declared rank; stated for a play made while the bluff flag is not set,
\* so that the flag after the play is the classification.
C21_BluffClassification ==
    [][(StepRan /\ ret'.accepted /\ ret'.challenge = 0
            /\ ~if_last_claim_bluff
            /\ Sum(central_pile') > Sum(central_pile)) =>
          LET rec == SubSeq(state', Len(state') - 15, Len(state'))
              other_rank == \E i \in 1 .. NUM_UNIQUE_CARDS :
                                rec[2 + i] > 0 /\ i - 1 # rec[2] - 2
          IN /\ ret'.kind = "return"
             /\ if_last_claim_bluff' <=> other_rank]_vars

\* C22: every entry of every hand and of the central pile is a non-negative
\* integer in every state, so no accepted action takes a card out of a hand
\* that does not hold it.
C22_NonNegative ==
    \A i \in 1 .. NUM_UNIQUE_CARDS :
        /\ central_pile[i] \in Nat
        /\ \A p \in PlayerIds : players[p][i] \in Nat
\* a player has played the last card it held
C22_Witness ==
    /\ ret.accepted /\ ret.challenge = 0
    /\ Sum(central_pile) >= 1
    /\ \E p \in PlayerIds : players[p] = Zeros

\* C23 (as claimed): no history stream is ever longer than max_history_len,
\* that is, at most max_number_of_rounds actions are accepted in one game.
C23_HistoryBound ==
    /\ \A p \in PlayerIds : Len(player_history[p]) <= max_history_len
    /\ Len(state) <= 16 * max_number_of_rounds

====
